---- MODULE Spec2Model ----
(***************************************************************************)
(* ProgressPulse: year-progress calculator, post-text composer and the     *)
(* publishing pipeline of progress_pulse_bot.py.                           *)
(*                                                                         *)
(* Texts are TLA+ strings, so Len is the Python len of the same text.      *)
(* percentage_complete is kept as an integer number of tenths (the float   *)
(* round(x, 1) always is one) and rendered with one decimal by FormatPct.  *)
(***************************************************************************)
EXTENDS Integers, Sequences, FiniteSets, TLC

VARIABLES
    pc,                 \* position of the process in main / post_daily_update
    credentials,        \* the credential environment variables that are set
    include_today,      \* self.include_today
    use_remote_content, \* self.use_remote_content
    quote_max_length,   \* self.quote_max_length
    joke_max_length,    \* self.joke_max_length
    v1_available,       \* self.v1_available
    today,              \* datetime.date.today() as read by the calculator
    data,               \* the record returned by calculate_year_progress
    charts,             \* number of charts rendered
    fetch,              \* what the snippet endpoint answered in this run
    requests,           \* number of urlopen calls issued by this run
    show,               \* the aside show_joke / show_quote selected
    extra_line,         \* extra_line of create_tweet_text
    lines,              \* lines of create_tweet_text as first assembled
    tweet_text,         \* tweet_text of post_daily_update
    media,              \* media handle of the upload, or "None"
    uploads,            \* number of media_upload calls
    tweets,             \* the create_tweet calls, in order
    exit_status         \* argument of sys.exit, -1 while running

vars == <<pc, credentials, include_today, use_remote_content,
          quote_max_length, joke_max_length, v1_available, today, data,
          charts, fetch, requests, show, extra_line, lines, tweet_text,
          media, uploads, tweets, exit_status>>

----------------------------------------------------------------------------
(* Bounds of the model *)

\* consecutive years, from 2020 on, swept day by day by the calendar runs
YearSpan == 6

\* consecutive years, from 2024 on, whose days the pipeline runs on
PipelineYears == 2

\* a configured maximum snippet length above the default, and the longest
\* snippet an endpoint serves
WideMaxLength == 400
MaxSnippet == 300

----------------------------------------------------------------------------
(* datetime.date: proleptic Gregorian calendar arithmetic *)

is_leap(year) == year % 4 = 0 /\ (year % 100 # 0 \/ year % 400 = 0)

days_in_month(year, month) ==
    IF month = 2 THEN (IF is_leap(year) THEN 29 ELSE 28)
    ELSE IF month \in {4, 6, 9, 11} THEN 30 ELSE 31

RECURSIVE days_before_month(_, _)
days_before_month(year, month) ==
    IF month = 1 THEN 0
    ELSE days_before_month(year, month - 1) + days_in_month(year, month - 1)

days_before_year(year) ==
    LET y == year - 1 IN y * 365 + (y \div 4) - (y \div 100) + (y \div 400)

\* date.toordinal(): 1 for 0001-01-01
toordinal(d) ==
    days_before_year(d.year) + days_before_month(d.year, d.month) + d.day

\* (a - b).days
DaysBetween(a, b) == toordinal(a) - toordinal(b)

\* date.weekday(): Monday is 0
weekday(d) == (toordinal(d) + 6) % 7

Date(y, m, dd) == [year |-> y, month |-> m, day |-> dd]

DatesOfYear(y) ==
    {d \in [year : {y}, month : 1..12, day : 1..31] :
        d.day <= days_in_month(y, d.month)}

Jan1(y) == Date(y, 1, 1)
Dec31(y) == Date(y, 12, 31)

\* the day after d, within d's year
Tomorrow(d) ==
    IF d.day < days_in_month(d.year, d.month)
    THEN Date(d.year, d.month, d.day + 1)
    ELSE Date(d.year, d.month + 1, 1)

----------------------------------------------------------------------------
(* calculate_year_progress *)

\* round(days_passed / total_days * 100, 1) in tenths.  Python rounds the
\* nearest double half-to-even; 1000 * n / d is never within 1/d of a tie
\* for d in {365, 366}, so the exact quotient decides the result.
RoundTenths(n, d) ==
    LET q == (1000 * n) \div d
        r == (1000 * n) % d
    IN  IF 2 * r < d THEN q
        ELSE IF 2 * r > d THEN q + 1
        ELSE IF q % 2 = 0 THEN q ELSE q + 1

Max(a, b) == IF a >= b THEN a ELSE b

\* a year taken to have 365 days whatever the calendar says
TotalDays_Hardcoded(year_start, year_end) == 365

TotalDays(year_start, year_end) == DaysBetween(year_end, year_start) + 1

\* today always counted as completed
DaysPassed_AlwaysInclusive(t, year_start, inc) ==
    DaysBetween(t, year_start) + 1

\* the days passed counted from the start of the month
DaysPassed_InMonth(t, year_start, inc) ==
    DaysBetween(t, Date(t.year, t.month, 1)) + (IF inc THEN 1 ELSE 0)

\* Jan 1 counted as day one before today is added
DaysPassed_OneBased(t, year_start, inc) ==
    DaysBetween(t, year_start) + 1 + (IF inc THEN 1 ELSE 0)

DaysPassed(t, year_start, inc) ==
    DaysBetween(t, year_start) + (IF inc THEN 1 ELSE 0)

\* the remaining days measured on their own, as year_end - today
DaysRemaining_Independent(total_days, days_passed, t, year_end) ==
    DaysBetween(year_end, t)

DaysRemaining(total_days, days_passed, t, year_end) ==
    total_days - days_passed

PercentageComplete(days_passed, total_days) ==
    RoundTenths(days_passed, total_days)

calculate_year_progress(t, inc) ==
    LET year_start == Date(t.year, 1, 1)
        year_end == Date(t.year, 12, 31)
        total_days == TotalDays(year_start, year_end)
        days_passed == DaysPassed(t, year_start, inc)
        days_remaining == DaysRemaining(total_days, days_passed, t, year_end)
        percentage_complete == PercentageComplete(days_passed, total_days)
        weeks_remaining == days_remaining \div 7
        months0 == (year_end.month - t.month) + 12 * (year_end.year - t.year)
        months_remaining == IF year_end.day < t.day THEN months0 - 1 ELSE months0
    IN  [year |-> t.year,
         today |-> t,
         include_today |-> inc,
         days_passed |-> days_passed,
         days_remaining |-> days_remaining,
         total_days |-> total_days,
         percentage_complete |-> percentage_complete,
         weeks_remaining |-> weeks_remaining,
         months_remaining |-> Max(0, months_remaining)]

\* value of data before the calculator has run
NoData ==
    [year |-> 0, today |-> Date(0, 0, 0), include_today |-> FALSE,
     days_passed |-> 0, days_remaining |-> 0, total_days |-> 0,
     percentage_complete |-> 0, weeks_remaining |-> 0, months_remaining |-> 0]

----------------------------------------------------------------------------
(* Python values: JSON payloads and their str(), len() and truthiness *)

None == [t |-> "null"]
JBool(b) == [t |-> "bool", v |-> b]
JNum(n) == [t |-> "num", v |-> n]
JStr(s) == [t |-> "str", v |-> s]
JArr(a) == [t |-> "arr", v |-> a]
\* an object over the keys q, a, error, joke and one unrelated key (other);
\* a key the object does not have holds Absent
JObj(q, a, error, joke, other) ==
    [t |-> "obj", q |-> q, a |-> a, error |-> error, joke |-> joke,
     other |-> other]
Absent == [t |-> "absent"]

\* number of keys of an object
ObjSize(j) ==
    Cardinality({k \in {"q", "a", "error", "joke", "other"} : j[k] # Absent})

\* bool(j)
Truthy(j) ==
    CASE j.t = "null" -> FALSE
      [] j.t = "absent" -> FALSE
      [] j.t = "bool" -> j.v
      [] j.t = "num" -> j.v # 0
      [] j.t = "str" -> Len(j.v) > 0
      [] j.t = "arr" -> Len(j.v) > 0
      [] j.t = "obj" -> ObjSize(j) > 0

\* dict.get(key): None for an absent key
DictGet(j, key) == IF j[key] = Absent THEN None ELSE j[key]

\* len(j) is defined for str, list and dict only
HasLen(j) == j.t \in {"str", "arr", "obj"}
PyLen(j) == IF j.t = "obj" THEN ObjSize(j) ELSE Len(j.v)

\* str(j) as an f-string renders it; containers are rendered by their
\* scalar elements' repr
RECURSIVE PyRepr(_)
RECURSIVE ReprItems(_, _)
ReprItems(a, i) ==
    IF i > Len(a) THEN ""
    ELSE (IF i > 1 THEN ", " ELSE "") \o PyRepr(a[i]) \o ReprItems(a, i + 1)
PyRepr(j) ==
    CASE j.t = "null" -> "None"
      [] j.t = "bool" -> (IF j.v THEN "True" ELSE "False")
      [] j.t = "num" -> ToString(j.v)
      [] j.t = "str" -> "'" \o j.v \o "'"
      [] j.t = "arr" -> "[" \o ReprItems(j.v, 1) \o "]"

PyStr(j) == IF j.t = "str" THEN j.v ELSE PyRepr(j)

\* a text of n characters
RECURSIVE Filler(_)
Filler(n) ==
    IF n <= 0 THEN ""
    ELSE LET half == Filler(n \div 2) IN
         half \o half \o (IF n % 2 = 1 THEN "x" ELSE "")

----------------------------------------------------------------------------
(* _fetch_json, _get_remote_quote, _get_remote_joke *)

\* what the endpoint does with a request: a failure of urlopen / json.loads
\* (timeout, non-200 status, malformed JSON) or a parsed payload
NoAnswer == [status |-> "none", payload |-> None]
NetFailed(why) == [status |-> why, payload |-> None]
NetParsed(j) == [status |-> "parsed", payload |-> j]

\* the request made whatever use_remote_content says
_fetch_json_IgnoresToggle(use_remote, net) ==
    [result |-> (IF net.status = "parsed" THEN net.payload ELSE None),
     issued |-> 1]

\* a failed request tried a second time
_fetch_json_Retries(use_remote, net) ==
    IF ~use_remote THEN [result |-> None, issued |-> 0]
    ELSE [result |-> (IF net.status = "parsed" THEN net.payload ELSE None),
          issued |-> (IF net.status = "parsed" THEN 1 ELSE 2)]

\* _fetch_json: the value returned (None on every failure path) and the
\* number of urlopen calls made
_fetch_json(use_remote, net) ==
    IF ~use_remote THEN [result |-> None, issued |-> 0]
    ELSE [result |-> (IF net.status = "parsed" THEN net.payload ELSE None),
          issued |-> 1]

\* result of a getter: a value, or an exception raised to the caller
Returned(v, n) == [raised |-> FALSE, value |-> v, issued |-> n]
Raised(n) == [raised |-> TRUE, value |-> None, issued |-> n]

\* the quote returned whatever its length
_get_remote_quote_NoLengthCheck(use_remote, net, max_length) ==
    LET f == _fetch_json(use_remote, net)
        d == f.result
        n == f.issued
    IN
    IF ~Truthy(d) \/ d.t # "arr" THEN Returned(None, n)
    ELSE LET item == d.v[1] IN
         IF ~Truthy(item) THEN Returned(None, n)
         ELSE IF item.t # "obj" THEN Raised(n)
         ELSE LET content == DictGet(item, "q")
                  author == DictGet(item, "a")
                  quote0 == "\"" \o PyStr(content) \o "\""
                  quote == IF Truthy(author)
                           THEN quote0 \o " - " \o PyStr(author)
                           ELSE quote0
              IN  IF ~Truthy(content) THEN Returned(None, n)
                  ELSE Returned(JStr(quote), n)

_get_remote_quote(use_remote, net, max_length) ==
    LET f == _fetch_json(use_remote, net)
        d == f.result
        n == f.issued
    IN
    IF ~Truthy(d) \/ d.t # "arr" THEN Returned(None, n)
    ELSE LET item == d.v[1] IN
         IF ~Truthy(item) THEN Returned(None, n)
         ELSE IF item.t # "obj" THEN Raised(n)   \* item.get: AttributeError
         ELSE LET content == DictGet(item, "q")
                  author == DictGet(item, "a")
                  quote0 == "\"" \o PyStr(content) \o "\""
                  quote == IF Truthy(author)
                           THEN quote0 \o " - " \o PyStr(author)
                           ELSE quote0
              IN  IF ~Truthy(content) THEN Returned(None, n)
                  ELSE IF Len(quote) > max_length THEN Returned(None, n)
                  ELSE Returned(JStr(quote), n)

_get_remote_joke(use_remote, net, max_length) ==
    LET f == _fetch_json(use_remote, net)
        d == f.result
        n == f.issued
    IN
    IF ~Truthy(d) THEN Returned(None, n)
    ELSE IF d.t # "obj" THEN Raised(n)           \* data.get: AttributeError
    ELSE IF Truthy(DictGet(d, "error")) THEN Returned(None, n)
    ELSE LET joke == DictGet(d, "joke") IN
         IF ~Truthy(joke) THEN Returned(None, n)
         ELSE IF ~HasLen(joke) THEN Raised(n)    \* len(joke): TypeError
         ELSE IF PyLen(joke) > max_length THEN Returned(None, n)
         ELSE Returned(joke, n)

----------------------------------------------------------------------------
(* create_tweet_text *)

\* a float with one decimal, as str() prints it
FormatPct(tenths) == ToString(tenths \div 10) \o "." \o ToString(tenths % 10)

hooks(d) ==
    LET pct == FormatPct(d.percentage_complete)
        year == ToString(d.year)
        days_passed == ToString(d.days_passed)
        total_days == ToString(d.total_days)
        days_remaining == ToString(d.days_remaining)
    IN  << "Monday check-in: " \o pct \o "% of " \o year \o " done.",
           "Day " \o days_passed \o "/" \o total_days \o ": " \o pct
               \o "% complete.",
           "Midweek pulse: " \o pct \o "% of " \o year \o " complete.",
           "Thursday pace: " \o days_remaining \o " days left in " \o year
               \o ".",
           "Friday recap: " \o pct \o "% done. " \o days_remaining
               \o " days left.",
           "Weekend update: " \o pct \o "% complete.",
           "Sunday reset: " \o days_remaining \o " days left this year." >>

insights ==
    << "My take: consistency beats intensity over a year.",
       "My take: small wins compound faster than big plans.",
       "My take: clarity first, then action.",
       "My take: momentum is built by showing up again.",
       "My take: focus makes average days count.",
       "My take: tiny steps keep big goals alive.",
       "My take: progress follows attention." >>

jokes ==
    << "Quick joke: tomorrow is not a project plan.",
       "Quick joke: time blocking is great until time blocks back.",
       "Quick joke: consistency is the only streak I want.",
       "Quick joke: progress looks better in morning light." >>

fallback_quotes ==
    << "Quote: small steps add up.",
       "Quote: focus on the next right step.",
       "Quote: consistency makes ordinary days count.",
       "Quote: start now, refine later." >>

prompts ==
    << "What is one thing you will finish this week?",
       "What is your next 1% action today?",
       "Name one small win you can lock in today.",
       "What would make today count?",
       "Pick one priority and move it forward.",
       "What can you complete before Friday?",
       "What will you do in the next 30 minutes?" >>

extra_tags == << "#Goals", "#Productivity", "#Focus", "#Consistency" >>

\* pool[i] for a Python (0-based) index
At(pool, i) == pool[i + 1]

\* "{n:,}": thousands separator
FormatThousands(n) ==
    IF n < 1000 THEN ToString(n)
    ELSE ToString(n \div 1000) \o "," \o
         (IF n % 1000 < 10 THEN "00" ELSE IF n % 1000 < 100 THEN "0" ELSE "")
         \o ToString(n % 1000)

RECURSIVE Join(_)
\* "\n".join(lines)
Join(ls) ==
    IF Len(ls) = 0 THEN ""
    ELSE IF Len(ls) = 1 THEN ls[1]
    ELSE ls[1] \o "\n" \o Join(Tail(ls))

\* the joke day test without the days_passed > 0 guard
show_joke_NoZeroGuard(d) == d.days_passed % 7 = 0

show_joke(d) == d.days_passed > 0 /\ d.days_passed % 7 = 0
show_quote(d) == ~show_joke(d) /\ d.days_passed % 3 = 0

\* the aside the selection rule calls for
Selected(d) ==
    IF show_joke(d) THEN "joke" ELSE IF show_quote(d) THEN "quote" ELSE "none"

\* `a or b`
Or(a, b) == IF Truthy(a) THEN a ELSE b

\* extra_line: lines 347-353
ExtraLine(d, use_remote, net, quote_max, joke_max) ==
    IF show_joke(d) THEN
        LET r == _get_remote_joke(use_remote, net, joke_max) IN
        IF r.raised THEN r
        ELSE Returned(Or(r.value, JStr(At(jokes, d.days_passed % Len(jokes)))),
                      r.issued)
    ELSE IF show_quote(d) THEN
        LET r == _get_remote_quote(use_remote, net, quote_max) IN
        IF r.raised THEN r
        ELSE Returned(Or(r.value,
                         JStr(At(fallback_quotes,
                                 d.days_passed % Len(fallback_quotes)))),
                      r.issued)
    ELSE Returned(None, 0)

\* the prompt indexed by days_passed instead of days_remaining
BaseLines_PromptByDaysPassed(d) ==
    LET hook == At(hooks(d), weekday(d.today))
        insight == At(insights, d.days_passed % Len(insights))
        prompt == At(prompts, d.days_passed % Len(prompts))
        extra_tag == At(extra_tags, d.days_passed % Len(extra_tags))
        hashtags == "#YearProgress #" \o ToString(d.year) \o " " \o extra_tag
        summary == FormatThousands(d.days_remaining) \o " days left. "
                   \o ToString(d.weeks_remaining) \o " weeks left."
    IN  [hook |-> hook, summary |-> summary, insight |-> insight,
         prompt |-> prompt, hashtags |-> hashtags]

\* the five lines every post has
BaseLines(d) ==
    LET hook == At(hooks(d), weekday(d.today))
        insight == At(insights, d.days_passed % Len(insights))
        prompt == At(prompts, d.days_remaining % Len(prompts))
        extra_tag == At(extra_tags, d.days_passed % Len(extra_tags))
        hashtags == "#YearProgress #" \o ToString(d.year) \o " " \o extra_tag
        summary == FormatThousands(d.days_remaining) \o " days left. "
                   \o ToString(d.weeks_remaining) \o " weeks left."
    IN  [hook |-> hook, summary |-> summary, insight |-> insight,
         prompt |-> prompt, hashtags |-> hashtags]

\* the aside appended after the hashtags
LinesWith_AsideLast(b, extra) ==
    <<b.hook, b.summary, b.insight, b.prompt, b.hashtags, extra>>

LinesWith(b, extra) == <<b.hook, b.summary, b.insight, extra, b.prompt, b.hashtags>>
LinesWithout(b) == <<b.hook, b.summary, b.insight, b.prompt, b.hashtags>>

\* the budget written with a digit too many
TweetLimit_Mistyped == 10 * 280

TweetLimit == 280

\* the aside kept whatever the length
Compose_NeverDrops(b, extra) ==
    IF ~Truthy(extra) THEN Join(LinesWithout(b))
    ELSE Join(LinesWith(b, extra.v))

\* lines 359-379: the text of the lines, the aside dropped when it makes the
\* text exceed the limit
Compose(b, extra) ==
    IF ~Truthy(extra) THEN Join(LinesWithout(b))
    ELSE LET text == Join(LinesWith(b, extra.v)) IN
         IF Len(text) > TweetLimit THEN Join(LinesWithout(b))
         ELSE text

\* lines 359-366: the lines as first assembled
FirstLines(b, extra) ==
    IF Truthy(extra) THEN LinesWith(b, extra.v) ELSE LinesWithout(b)

\* an aside that does not fit replaced by the local pool entry
create_tweet_text_SubstitutesLocal(d, use_remote, net, quote_max, joke_max) ==
    LET e == ExtraLine(d, use_remote, net, quote_max, joke_max)
        b == BaseLines(d)
        pool == IF show_joke(d) THEN jokes ELSE fallback_quotes
        local == At(pool, d.days_passed % Len(pool))
    IN
    IF e.raised
    THEN [raised |-> TRUE, text |-> "", show |-> Selected(d),
          extra_line |-> None, lines |-> <<>>, issued |-> e.issued]
    ELSE IF Truthy(e.value) /\ e.value.t # "str"
    THEN [raised |-> TRUE, text |-> "", show |-> Selected(d),
          extra_line |-> e.value, lines |-> <<>>,
          issued |-> e.issued]
    ELSE [raised |-> FALSE,
          text |-> IF Truthy(e.value)
                      /\ Len(Join(LinesWith(b, e.value.v))) > TweetLimit
                   THEN Join(LinesWith(b, local))
                   ELSE Compose(b, e.value),
          show |-> Selected(d), extra_line |-> e.value,
          lines |-> FirstLines(b, e.value), issued |-> e.issued]

\* create_tweet_text: the text returned, or the exception raised, with the
\* aside chosen and the requests issued on the way
create_tweet_text(d, use_remote, net, quote_max, joke_max) ==
    LET e == ExtraLine(d, use_remote, net, quote_max, joke_max)
        b == BaseLines(d)
    IN
    IF e.raised
    THEN [raised |-> TRUE, text |-> "", show |-> Selected(d),
          extra_line |-> None, lines |-> <<>>, issued |-> e.issued]
    ELSE IF Truthy(e.value) /\ e.value.t # "str"
    THEN [raised |-> TRUE, text |-> "", show |-> Selected(d),
          extra_line |-> e.value, lines |-> <<>>,
          issued |-> e.issued]                  \* join: TypeError
    ELSE [raised |-> FALSE, text |-> Compose(b, e.value),
          show |-> Selected(d), extra_line |-> e.value,
          lines |-> FirstLines(b, e.value), issued |-> e.issued]

----------------------------------------------------------------------------
(* Environment: dates, configuration, endpoint answers, collaborator results *)

CalendarYears == {1, 1900, 2000, 2100, 9999} \cup (2020..(2020 + YearSpan - 1))

PipelineDates == UNION {DatesOfYear(y) : y \in 2024..(2024 + PipelineYears - 1)}

RequiredCredentials ==
    {"TWITTER_API_KEY", "TWITTER_API_SECRET", "TWITTER_ACCESS_TOKEN",
     "TWITTER_ACCESS_TOKEN_SECRET"}

\* QUOTE_MAX_LENGTH / JOKE_MAX_LENGTH default
DefaultMaxLength == 120

\* USE_REMOTE_CONTENT with QUOTE_MAX_LENGTH / JOKE_MAX_LENGTH: a run reads one
\* of the two limits only, and only after a fetch, so they are set together
\* and varied for the runs that fetch
Configs ==
    {[remote |-> FALSE, max |-> DefaultMaxLength]} \cup
    {[remote |-> TRUE, max |-> m] : m \in {DefaultMaxLength, WideMaxLength}}

SnippetLengths == {20, 100, DefaultMaxLength, MaxSnippet}

NetFailures == {NetFailed("timeout"), NetFailed("non200"), NetFailed("malformed")}

Quote(q, a) == JArr(<<JObj(q, a, Absent, Absent, Absent)>>)

\* answers of the random-quote endpoint
QuoteAnswers ==
    NetFailures \cup
    {NetParsed(j) : j \in
        {None, JBool(TRUE), JNum(7), JStr("quote"), JArr(<<>>),
         JArr(<<None>>), JArr(<<JNum(1)>>), JArr(<<JStr("quote")>>),
         JObj(JStr("quote"), JStr("Author"), Absent, Absent, Absent),
         JArr(<<JObj(Absent, Absent, Absent, Absent, Absent)>>),
         Quote(Absent, JStr("Author")),
         Quote(JStr(""), JStr("Author")),
         Quote(JNum(42), None),
         Quote(JStr("Less is more"), Absent)}
        \cup {Quote(JStr(Filler(n)), JStr("Author")) : n \in SnippetLengths}}

Joke(error, joke) == JObj(Absent, Absent, error, joke, JStr("Any"))

\* answers of the random-joke endpoint
JokeAnswers ==
    NetFailures \cup
    {NetParsed(j) : j \in
        {None, JBool(TRUE), JNum(7), JStr("joke"), JArr(<<>>),
         JArr(<<JNum(1)>>),
         JObj(Absent, Absent, Absent, Absent, Absent),
         Joke(JBool(TRUE), Absent),
         Joke(JBool(TRUE), JStr("ignored")),
         Joke(Absent, Absent),
         Joke(JBool(FALSE), JNum(5)),
         Joke(JBool(FALSE), JArr(<<JStr("a"), JStr("b")>>))}
        \cup {Joke(JBool(FALSE), JStr(Filler(n))) : n \in SnippetLengths}}

\* what the endpoint asked by today's aside may answer
Answers(d) ==
    IF show_joke(d) THEN JokeAnswers
    ELSE IF show_quote(d) THEN QuoteAnswers
    ELSE {NoAnswer}

----------------------------------------------------------------------------
(* main, __init__ and post_daily_update *)

\* main, lines 504-522: the exit status for the outcome of the run
ExitStatus(success) == IF success THEN 0 ELSE 1

Exit(success) ==
    /\ pc' = "exited"
    /\ exit_status' = ExitStatus(success)

Init ==
    /\ pc = "main"
    /\ credentials \in SUBSET RequiredCredentials
    /\ include_today \in BOOLEAN
    /\ \E c \in Configs :
        /\ use_remote_content = c.remote
        /\ quote_max_length = c.max
        /\ joke_max_length = c.max
    /\ v1_available = FALSE
    /\ today = Date(0, 0, 0)
    /\ data = NoData
    /\ charts = 0
    /\ fetch = NoAnswer
    /\ requests = 0
    /\ show = "none"
    /\ extra_line = None
    /\ lines = <<>>
    /\ tweet_text = ""
    /\ media = "None"
    /\ uploads = 0
    /\ tweets = <<>>
    /\ exit_status = -1

\* any(...) in the place of all(...): one credential is enough
CredentialsPresent_Any == credentials # {}

\* all([api_key, api_secret, access_token, access_token_secret])
CredentialsPresent == RequiredCredentials \subseteq credentials

\* __init__ raises ValueError: main prints the fatal error and exits
ConstructMissingCredentials ==
    /\ pc = "main"
    /\ ~CredentialsPresent
    /\ Exit(FALSE)
    /\ UNCHANGED <<credentials, include_today, use_remote_content,
                   quote_max_length, joke_max_length, v1_available, today,
                   data, charts, fetch, requests, show, extra_line, lines, tweet_text,
                   media, uploads, tweets>>

\* __init__, lines 53-97: get_me, then verify_credentials when get_me gave
\* no data or was forbidden; any other exception is re-raised
Construct ==
    /\ pc = "main"
    /\ CredentialsPresent
    /\ \E get_me \in {"data", "no_data", "forbidden", "error"},
          verify \in {"ok", "forbidden", "error"} :
        LET verified == get_me \in {"no_data", "forbidden"}
            failed == get_me = "error" \/ (verified /\ verify = "error")
        IN  IF failed
            THEN Exit(FALSE) /\ UNCHANGED v1_available
            ELSE /\ pc' = "calculate"
                 /\ v1_available' = ~(verified /\ verify = "forbidden")
                 /\ UNCHANGED exit_status
    /\ UNCHANGED <<credentials, include_today, use_remote_content,
                   quote_max_length, joke_max_length, today, data, charts,
                   fetch, requests, show, extra_line, lines, tweet_text, media, uploads,
                   tweets>>

\* post_daily_update, line 387
Calculate ==
    /\ pc = "calculate"
    /\ \E d \in PipelineDates :
        /\ today' = d
        /\ data' = calculate_year_progress(d, include_today)
    /\ pc' = "chart"
    /\ UNCHANGED <<credentials, include_today, use_remote_content,
                   quote_max_length, joke_max_length, v1_available, charts,
                   fetch, requests, show, extra_line, lines, tweet_text, media, uploads,
                   tweets, exit_status>>

\* post_daily_update, lines 392-395
CreateChart ==
    /\ pc = "chart"
    /\ charts' = charts + 1
    /\ pc' = "text"
    /\ UNCHANGED <<credentials, include_today, use_remote_content,
                   quote_max_length, joke_max_length, v1_available, today,
                   data, fetch, requests, show, extra_line, lines, tweet_text, media,
                   uploads, tweets, exit_status>>

\* post_daily_update, lines 397-403; an exception of create_tweet_text is
\* caught at line 489 and the run returns False
ComposeText ==
    /\ pc = "text"
    /\ \E net \in Answers(data) :
        LET r == create_tweet_text(data, use_remote_content, net,
                                   quote_max_length, joke_max_length)
        IN  /\ fetch' = IF r.issued > 0 THEN net ELSE NoAnswer
            /\ requests' = requests + r.issued
            /\ show' = r.show
            /\ extra_line' = r.extra_line
            /\ lines' = r.lines
            /\ IF r.raised
               THEN Exit(FALSE) /\ UNCHANGED tweet_text
               ELSE /\ tweet_text' = r.text
                    /\ pc' = "length"
                    /\ UNCHANGED exit_status
    /\ UNCHANGED <<credentials, include_today, use_remote_content,
                   quote_max_length, joke_max_length, v1_available, today,
                   data, charts, media, uploads, tweets>>

\* the marker appended to the whole budget instead of the budget minus three
Truncate_AtLimit(text) == SubSeq(text, 1, 280) \o "..."

\* tweet_text[:277] + "..."
Truncate(text) == SubSeq(text, 1, 277) \o "..."

\* post_daily_update, lines 405-409
LengthChecked(text) ==
    IF Len(text) > TweetLimit THEN Truncate(text) ELSE text

CheckLength ==
    /\ pc = "length"
    /\ tweet_text' = LengthChecked(tweet_text)
    /\ fetch' = NoAnswer
    /\ pc' = "upload"
    /\ UNCHANGED <<credentials, include_today, use_remote_content,
                   quote_max_length, joke_max_length, v1_available, today,
                   data, charts, requests, show, extra_line, lines, media, uploads,
                   tweets, exit_status>>

\* a failed upload ends the run
UploadChart_AbortOnFailure ==
    /\ pc = "upload"
    /\ IF v1_available
       THEN /\ \E uploaded \in BOOLEAN :
                IF uploaded
                THEN media' = "media_id" /\ pc' = "tweet"
                     /\ UNCHANGED exit_status
                ELSE media' = "None" /\ Exit(FALSE)
            /\ uploads' = uploads + 1
       ELSE media' = "None" /\ pc' = "tweet" /\ UNCHANGED <<uploads, exit_status>>
    /\ UNCHANGED <<credentials, include_today, use_remote_content,
                   quote_max_length, joke_max_length, v1_available, today,
                   data, charts, fetch, requests, show, extra_line, lines,
                   tweet_text, tweets>>

\* post_daily_update, lines 411-425
UploadChart ==
    /\ pc = "upload"
    /\ IF v1_available
       THEN /\ \E uploaded \in BOOLEAN :
                media' = IF uploaded THEN "media_id" ELSE "None"
            /\ uploads' = uploads + 1
       ELSE media' = "None" /\ UNCHANGED uploads
    /\ pc' = "tweet"
    /\ UNCHANGED <<credentials, include_today, use_remote_content,
                   quote_max_length, joke_max_length, v1_available, today,
                   data, charts, fetch, requests, show, extra_line, lines, tweet_text,
                   tweets, exit_status>>

\* a create_tweet call as the publisher sees it
Call(text, with_media, outcome) ==
    [text |-> text, media |-> with_media, outcome |-> outcome]

\* outcomes of the primary create_tweet and of the get_me that follows a post
PostOutcomes ==
    {"posted", "posted_get_me_forbidden", "posted_get_me_error", "no_data",
     "forbidden", "error"}

\* the text-only retry after any exception of create_tweet
PostTweet_RetryOnAnyError ==
    /\ pc = "tweet"
    /\ \E outcome \in PostOutcomes :
        /\ tweets' = Append(tweets, Call(tweet_text, media # "None", outcome))
        /\ IF outcome \in {"forbidden", "error"}
           THEN pc' = "fallback" /\ UNCHANGED exit_status
           ELSE Exit(outcome \in {"posted", "posted_get_me_forbidden"})
    /\ UNCHANGED <<credentials, include_today, use_remote_content,
                   quote_max_length, joke_max_length, v1_available, today,
                   data, charts, fetch, requests, show, extra_line, lines,
                   tweet_text, media, uploads>>

\* post_daily_update, lines 427-458 and 481-487
PostTweet ==
    /\ pc = "tweet"
    /\ \E outcome \in PostOutcomes :
        /\ tweets' = Append(tweets, Call(tweet_text, media # "None", outcome))
        /\ IF outcome = "forbidden"
           THEN pc' = "fallback" /\ UNCHANGED exit_status
           ELSE Exit(outcome \in {"posted", "posted_get_me_forbidden"})
    /\ UNCHANGED <<credentials, include_today, use_remote_content,
                   quote_max_length, joke_max_length, v1_available, today,
                   data, charts, fetch, requests, show, extra_line, lines, tweet_text,
                   media, uploads>>

\* line 471; the chart emoji that opens the text is one character
simple_text(d) ==
    "#" \o " " \o ToString(d.year) \o " Progress: "
    \o FormatPct(d.percentage_complete) \o "% complete, "
    \o ToString(d.days_remaining) \o " days remaining! #YearProgress"

\* post_daily_update, lines 460-479
PostSimple ==
    /\ pc = "fallback"
    /\ \E outcome \in {"posted", "no_data", "error"} :
        /\ tweets' = Append(tweets, Call(simple_text(data), FALSE, outcome))
        /\ Exit(outcome = "posted")
    /\ UNCHANGED <<credentials, include_today, use_remote_content,
                   quote_max_length, joke_max_length, v1_available, today,
                   data, charts, fetch, requests, show, extra_line, lines, tweet_text,
                   media, uploads>>

Next ==
    \/ ConstructMissingCredentials
    \/ Construct
    \/ Calculate
    \/ CreateChart
    \/ ComposeText
    \/ CheckLength
    \/ UploadChart
    \/ PostTweet
    \/ PostSimple

Spec == Init /\ [][Next]_vars

----------------------------------------------------------------------------
(* The calendar runs: the scheduler starts the calculator once a day, from *)
(* Jan 1 to Dec 31 of one year                                             *)

InitYear ==
    /\ pc = "daily"
    /\ credentials = RequiredCredentials
    /\ include_today \in BOOLEAN
    /\ use_remote_content = FALSE
    /\ quote_max_length = DefaultMaxLength
    /\ joke_max_length = DefaultMaxLength
    /\ v1_available = FALSE
    /\ \E y \in CalendarYears : today = Jan1(y)
    /\ data = calculate_year_progress(today, include_today)
    /\ charts = 0
    /\ fetch = NoAnswer
    /\ requests = 0
    /\ show = "none"
    /\ extra_line = None
    /\ lines = <<>>
    /\ tweet_text = ""
    /\ media = "None"
    /\ uploads = 0
    /\ tweets = <<>>
    /\ exit_status = -1

\* the run of the day after: calculate_year_progress with the new date
NextDay ==
    /\ pc = "daily"
    /\ today # Dec31(today.year)
    /\ today' = Tomorrow(today)
    /\ data' = calculate_year_progress(today', include_today)
    /\ UNCHANGED <<pc, credentials, include_today, use_remote_content,
                   quote_max_length, joke_max_length, v1_available, charts,
                   fetch, requests, show, extra_line, lines, tweet_text, media, uploads,
                   tweets, exit_status>>

YearSpec == InitYear /\ [][NextDay]_vars

-----------------------------------------------------------------------------
(* The length steps on their own: lines 368-379 of create_tweet_text and    *)
(* lines 405-409 of post_daily_update applied to lists of lines whose       *)
(* joined length lies on either side of the limit, with and without an      *)
(* aside.                                                                   *)

\* the five other lines reach from TweetLimit - DegradeMargin to
\* TweetLimit + DegradeMargin characters
DegradeMargin == 6

\* the aside has up to DegradeMaxAside characters
DegradeMaxAside == 12

\* the lines of 2024-03-01, the insight lengthened so that the five lines
\* joined have n characters
LongLines(n) ==
    LET b == BaseLines(calculate_year_progress(Date(2024, 3, 1), FALSE))
    IN  [b EXCEPT !.insight =
            b.insight \o Filler(n - Len(Join(LinesWithout(b))))]

DegradeBases ==
    {LongLines(n) : n \in (TweetLimit - DegradeMargin)..(TweetLimit + DegradeMargin)}

DegradeAsides == {None} \cup {JStr(Filler(a)) : a \in 1..DegradeMaxAside}

InitDegrade ==
    /\ pc = "text"
    /\ credentials = RequiredCredentials
    /\ include_today = FALSE
    /\ use_remote_content = FALSE
    /\ quote_max_length = DefaultMaxLength
    /\ joke_max_length = DefaultMaxLength
    /\ v1_available = FALSE
    /\ today = Date(2024, 3, 1)
    /\ data = calculate_year_progress(today, include_today)
    /\ charts = 1
    /\ fetch = NoAnswer
    /\ requests = 0
    /\ show = "none"
    /\ \E b \in DegradeBases, extra \in DegradeAsides :
        /\ extra_line = extra
        /\ lines = FirstLines(b, extra)
    /\ tweet_text = ""
    /\ media = "None"
    /\ uploads = 0
    /\ tweets = <<>>
    /\ exit_status = -1

\* create_tweet_text, lines 368-379, on the lines assembled
DropAside ==
    /\ pc = "text"
    /\ LET n == Len(lines)
           b == [hook |-> lines[1], summary |-> lines[2],
                 insight |-> lines[3], prompt |-> lines[n - 1],
                 hashtags |-> lines[n]]
       IN  tweet_text' = Compose(b, extra_line)
    /\ pc' = "length"
    /\ UNCHANGED <<credentials, include_today, use_remote_content,
                   quote_max_length, joke_max_length, v1_available, today,
                   data, charts, fetch, requests, show, extra_line, lines,
                   media, uploads, tweets, exit_status>>

NextDegrade ==
    \/ DropAside
    \/ CheckLength

DegradeSpec == InitDegrade /\ [][NextDegrade]_vars
----------------------------------------------------------------------------
(* Properties of the calculator, checked over the calendar runs (YearSpec) *)

\* C1: for every date and both values of include_today, the record of
\* calculate_year_progress has days_passed + days_remaining = total_days.
C1_SumInvariant ==
    pc = "daily" => data.days_passed + data.days_remaining = data.total_days

\* a day on which today is not counted, well inside a leap year
C1_Witness ==
    /\ pc = "daily"
    /\ ~include_today
    /\ today = Date(2024, 3, 1)
    /\ data.days_passed = 60
    /\ data.days_remaining = 306

\* C2: total_days is 366 iff the year of today is a leap year (divisible by
\* 4 and not by 100, or divisible by 400), and 365 otherwise.
C2_TotalDaysLeap ==
    pc = "daily" =>
        LET y == today.year
            leap == (y % 4 = 0 /\ y % 100 # 0) \/ y % 400 = 0
        IN  /\ data.year = y
            /\ (data.total_days = 366) <=> leap
            /\ ~leap => data.total_days = 365

\* a century year that is a leap year
C2_Witness ==
    pc = "daily" /\ today = Date(2000, 2, 29) /\ data.total_days = 366

\* C9: on Jan 1 with include_today false, days_passed = 0 and the percentage
\* is 0.0; on Dec 31 with include_today true, days_passed = total_days,
\* days_remaining = 0 and the percentage is 100.0; in every year.
C9_YearBoundaries ==
    pc = "daily" =>
        /\ (today = Jan1(today.year) /\ ~include_today) =>
               (data.days_passed = 0 /\ data.percentage_complete = 0)
        /\ (today = Dec31(today.year) /\ include_today) =>
               /\ data.days_passed = data.total_days
               /\ data.days_remaining = 0
               /\ data.percentage_complete = 1000

\* Dec 31 of a leap year with today counted
C9_Witness ==
    /\ pc = "daily"
    /\ include_today
    /\ today = Dec31(2024)
    /\ data.days_passed = 366

\* C10: for a fixed include_today and year, the percentage (in tenths) never
\* decreases as today advances day by day from Jan 1 to Dec 31.
C10_PercentMonotone ==
    [][(pc = "daily" /\ today'.year = today.year /\ include_today' = include_today)
         => data'.percentage_complete >= data.percentage_complete]_vars

\* the last run of a year without today counted: 364 of 365 days, 99.7
C10_Witness ==
    /\ pc = "daily"
    /\ ~include_today
    /\ today = Dec31(2025)
    /\ data.percentage_complete = 997

\* C19: days_passed, days_remaining and months_remaining are never negative,
\* days_passed is at most total_days and the percentage lies in 0.0..100.0;
\* without today counted at least one day remains and the percentage is
\* below 100.0; no day remains only on Dec 31 with today counted.
C19_Ranges ==
    pc = "daily" =>
        /\ data.days_passed >= 0
        /\ data.days_remaining >= 0
        /\ data.months_remaining >= 0
        /\ data.days_passed <= data.total_days
        /\ data.percentage_complete >= 0
        /\ data.percentage_complete <= 1000
        /\ ~include_today =>
            /\ data.days_remaining >= 1
            /\ data.percentage_complete < 1000
        /\ data.days_remaining = 0 =>
            /\ today = Date(today.year, 12, 31)
            /\ include_today

\* Dec 31 of a leap year without today counted: one day remains, 99.7 percent
C19_Witness ==
    /\ pc = "daily"
    /\ ~include_today
    /\ today = Date(2024, 12, 31)
    /\ data.days_passed = 365
    /\ data.days_remaining = 1
    /\ data.months_remaining = 0
    /\ data.percentage_complete = 997

----------------------------------------------------------------------------
(* Properties of the composer and the pipeline, checked over Spec *)

\* create_tweet_text has been called in this run
Composed == charts = 1 /\ pc # "text"

\* create_tweet_text raised: the run ended before any upload or post
ComposeRaised == pc = "exited" /\ charts = 1 /\ tweets = <<>>

\* sub occurs in text
Contains(text, sub) ==
    \E i \in 1..(Len(text) - Len(sub) + 1) :
        SubSeq(text, i, i + Len(sub) - 1) = sub

\* the local pool entry of the selected kind at index days_passed mod 4
LocalAside ==
    IF show = "joke" THEN jokes[(data.days_passed % 4) + 1]
    ELSE fallback_quotes[(data.days_passed % 4) + 1]

\* C3: every text handed to create_tweet has at most 280 characters, for any
\* record, any selected lines and any aside source (remote snippet of any
\* length or local fallback).
C3_TextWithinBudget ==
    \A i \in 1..Len(tweets) : Len(tweets[i].text) <= 280

\* a post on a day whose accepted remote snippet alone is longer than 280
C3_Witness ==
    /\ Len(tweets) > 0
    /\ extra_line.t = "str"
    /\ Len(extra_line.v) > 280
    /\ tweets[1].outcome = "posted"

\* C4: a joke is selected iff days_passed > 0 and days_passed mod 7 = 0;
\* otherwise a quote iff days_passed mod 3 = 0; otherwise no aside; never both
\* (the joke wins on positive multiples of 21).
C4_AsideSelection ==
    Composed =>
        LET dp == data.days_passed
            joke == dp > 0 /\ dp % 7 = 0
            quote == ~joke /\ dp % 3 = 0
        IN  /\ (show = "joke") <=> joke
            /\ (show = "quote") <=> quote
            /\ (show = "none") <=> (~joke /\ ~quote)
            /\ ~(show_joke(data) /\ show_quote(data))
            /\ dp = 7 => show = "joke"
            /\ dp = 3 => show = "quote"
            /\ (dp > 0 /\ dp % 21 = 0) => show = "joke"
            /\ ~ComposeRaised => ((show = "none") <=> (extra_line = None))
            /\ (~use_remote_content /\ show = "joke") =>
                   \E i \in 1..4 : extra_line = JStr(jokes[i])
            /\ (~use_remote_content /\ show = "quote") =>
                   \E i \in 1..4 : extra_line = JStr(fallback_quotes[i])

\* day 21: both tests would trigger, the joke is taken
C4_Witness ==
    /\ pc = "length"
    /\ data.days_passed = 21
    /\ show = "joke"
    /\ ~use_remote_content
    /\ extra_line = JStr(jokes[2])

\* the request failed: timeout or network error, non-200 status, malformed
\* JSON
FetchFailed == fetch.status \in {"timeout", "non200", "malformed"}

\* the endpoint served a well-formed snippet longer than the configured
\* maximum
OverLength ==
    /\ fetch.status = "parsed"
    /\ LET p == fetch.payload IN
       IF show = "joke"
       THEN /\ p.t = "obj"
            /\ p.error \in {Absent, JBool(FALSE)}
            /\ p.joke.t = "str"
            /\ Len(p.joke.v) > joke_max_length
       ELSE /\ p.t = "arr"
            /\ Len(p.v) > 0
            /\ p.v[1].t = "obj"
            /\ p.v[1].q.t = "str"
            /\ Len(p.v[1].q.v) > 0
            /\ p.v[1].a.t \in {"str", "absent"}
            /\ Len(p.v[1].q.v) + 2
                 + (IF p.v[1].a.t = "str" THEN 3 + Len(p.v[1].a.v) ELSE 0)
               > quote_max_length

\* C5: when the selection rule calls for an aside and the remote fetch fails
\* (timeout, non-200, malformed JSON, over-length snippet), create_tweet_text
\* does not raise and its text contains the local pool entry of the selected
\* kind at index days_passed mod 4.
C5_FallbackOnFailure ==
    (show # "none" /\ (FetchFailed \/ OverLength)) =>
        /\ pc = "length"
        /\ extra_line = JStr(LocalAside)
        /\ Contains(tweet_text, "\n" \o LocalAside \o "\n")

\* a quote day on which the endpoint served an over-length quote
C5_Witness ==
    /\ pc = "length"
    /\ show = "quote"
    /\ OverLength
    /\ Contains(tweet_text, LocalAside)

\* C6: for every parsed JSON payload of an endpoint the getter returns an
\* accepted snippet or None and never raises: the composition goes on with a
\* text aside, remote or local.
C6_GettersTotal ==
    fetch.status = "parsed" => (pc = "length" /\ extra_line.t = "str")

\* C7: with use_remote_content false no request is issued, and an aside the
\* selection rule calls for is the local pool entry at days_passed mod 4.
C7_RemoteDisabled ==
    ~use_remote_content =>
        /\ requests = 0
        /\ fetch = NoAnswer
        /\ (Composed /\ show # "none") =>
               /\ ~ComposeRaised
               /\ extra_line = JStr(LocalAside)

\* a joke day composed with remote content switched off
C7_Witness ==
    /\ ~use_remote_content
    /\ pc = "length"
    /\ show = "joke"
    /\ requests = 0
    /\ Contains(tweet_text, LocalAside)

\* C8: at most one remote request per run, none when no aside is selected,
\* and after a failed request the local pool is used with no second request.
C8_SingleAttempt ==
    /\ requests <= 1
    /\ ~Composed => requests = 0
    /\ (Composed /\ show = "none") => requests = 0
    /\ FetchFailed =>
           /\ requests = 1
           /\ pc = "length"
           /\ extra_line = JStr(LocalAside)
    /\ (Len(tweets) > 0 /\ use_remote_content /\ show # "none") => requests = 1

\* a joke day whose single request timed out
C8_Witness ==
    /\ pc = "length"
    /\ show = "joke"
    /\ fetch.status = "timeout"
    /\ requests = 1
    /\ extra_line = JStr(LocalAside)
\* C11: a missing required credential aborts before any computation: no
\* progress calculation, no chart, no snippet request, no upload and no
\* create_tweet call, and the process ends with a non-zero exit status.
C11_MissingCredentialFatal ==
    (\E c \in {"TWITTER_API_KEY", "TWITTER_API_SECRET",
               "TWITTER_ACCESS_TOKEN", "TWITTER_ACCESS_TOKEN_SECRET"} :
        c \notin credentials) =>
        /\ pc \in {"main", "exited"}
        /\ pc = "exited" => exit_status = 1
        /\ exit_status # 0
        /\ data = NoData
        /\ today = Date(0, 0, 0)
        /\ charts = 0
        /\ requests = 0
        /\ uploads = 0
        /\ tweets = <<>>
        /\ tweet_text = ""

\* a run with only the access token secret missing has exited
C11_Witness ==
    /\ credentials = {"TWITTER_API_KEY", "TWITTER_API_SECRET",
                      "TWITTER_ACCESS_TOKEN"}
    /\ pc = "exited"
    /\ exit_status = 1
\* a create_tweet call returned response data
Published(call) ==
    call.outcome \in {"posted", "posted_get_me_forbidden",
                      "posted_get_me_error"}

\* C12: a run ends with status 0 or 1, and the status is 0 iff some
\* create_tweet call of the run returned response data.
C12_ExitStatusIffPublished ==
    pc = "exited" =>
        /\ exit_status \in {0, 1}
        /\ (exit_status = 0) <=> (\E i \in 1..Len(tweets) : Published(tweets[i]))
\* the six parts in the order of the post, separated by newlines; the aside
\* part is left out when withAside is false
InOrder(hook, summary, insight, aside, prompt, hashtags, withAside) ==
    hook \o "\n" \o summary \o "\n" \o insight \o "\n"
    \o (IF withAside THEN aside \o "\n" ELSE "")
    \o prompt \o "\n" \o hashtags

\* the text of create_tweet_text is hook, summary, insight, the aside when one
\* is kept, prompt, hashtags, in this order
PartsInOrder ==
    LET b == BaseLines(data)
        aside == IF extra_line = None THEN "" ELSE extra_line.v
        kept == extra_line # None /\ Contains(tweet_text, "\n" \o aside \o "\n")
    IN  /\ tweet_text = InOrder(b.hook, b.summary, b.insight, aside, b.prompt,
                                b.hashtags, kept)
        /\ Len(lines) = IF extra_line = None THEN 5 ELSE 6
        /\ lines[1] = b.hook /\ lines[2] = b.summary /\ lines[3] = b.insight
        /\ extra_line # None => lines[4] = aside
        /\ lines[Len(lines) - 1] = b.prompt /\ lines[Len(lines)] = b.hashtags
        /\ (extra_line # None /\ Len(Join(lines)) <= 280) => kept

\* C13 as stated: the parts in the fixed order, the summary line containing
\* the percent, the days remaining and the weeks remaining.
C13_OrderWithPercentInSummary ==
    pc = "length" =>
        /\ PartsInOrder
        /\ Contains(lines[2], FormatPct(data.percentage_complete))
        /\ Contains(lines[2], ToString(data.days_remaining))
        /\ Contains(lines[2], ToString(data.weeks_remaining))

\* C13 amended: the parts in the fixed order, the summary line being
\* "<days_remaining> days left. <weeks_remaining> weeks left." (no percent).
C13_FixedOrder ==
    pc = "length" =>
        /\ PartsInOrder
        /\ lines[2] = ToString(data.days_remaining) \o " days left. "
                      \o ToString(data.weeks_remaining) \o " weeks left."

\* a post that keeps a remote aside between insight and prompt
C13_Witness ==
    /\ pc = "length"
    /\ requests = 1
    /\ Len(lines) = 6
    /\ extra_line # JStr(LocalAside)
    /\ tweet_text = Join(lines)
\* C15: a run makes at most two create_tweet calls; the second one is the
\* short text-only summary without media and follows only a primary call that
\* raised Forbidden; any other failure of the primary call ends the run with
\* failure after one call; a failed retry ends the run with failure; at most
\* one call succeeds.
C15_RetryAtMostOnce ==
    /\ Len(tweets) <= 2
    /\ Len(tweets) = 2 =>
        /\ tweets[1].outcome = "forbidden"
        /\ tweets[2].text = simple_text(data)
        /\ Len(tweets[2].text) <= 280
        /\ ~tweets[2].media
    /\ (Len(tweets) >= 1 /\ tweets[1].outcome \in {"error", "no_data"}) =>
        /\ Len(tweets) = 1
        /\ pc = "exited" /\ exit_status = 1
    /\ (Len(tweets) = 1 /\ tweets[1].outcome = "forbidden") => pc = "fallback"
    /\ (Len(tweets) = 2 /\ ~Published(tweets[2])) =>
        pc = "exited" /\ exit_status = 1
    /\ Cardinality({i \in 1..Len(tweets) : Published(tweets[i])}) <= 1

\* the primary call with the chart was forbidden and the retry failed too
C15_Witness ==
    /\ pc = "exited"
    /\ exit_status = 1
    /\ Len(tweets) = 2
    /\ tweets[1].outcome = "forbidden" /\ tweets[1].media
    /\ tweets[2].outcome = "error" /\ ~tweets[2].media

\* C16: the upload step always hands over to the create_tweet call, with the
\* text unchanged: no upload is attempted without the v1.1 API, a failed
\* upload leaves no media handle, and the call carries a media handle exactly
\* when the upload succeeded.
C16_ImageNeverBlocks ==
    [][/\ pc = "upload" =>
            /\ pc' = "tweet"
            /\ tweet_text' = tweet_text
            /\ ~v1_available => uploads' = uploads /\ media' = "None"
            /\ v1_available => uploads' = uploads + 1
       /\ pc = "tweet" =>
            /\ Len(tweets') = 1
            /\ tweets'[1].text = tweet_text
            /\ tweets'[1].media = (media = "media_id")
            /\ tweets'[1].media => v1_available /\ uploads = 1]_vars

\* the upload was attempted and failed, and the text was posted without media
C16_Witness ==
    /\ pc = "exited"
    /\ exit_status = 0
    /\ v1_available
    /\ uploads = 1
    /\ media = "None"
    /\ Len(tweets) = 1
    /\ tweets[1] = Call(tweet_text, FALSE, "posted")

\* the lines without the aside line, the five others as they are
WithoutAside(ls) ==
    IF Len(ls) = 6 THEN <<ls[1], ls[2], ls[3], ls[5], ls[6]>> ELSE ls

Range(pool) == {pool[i] : i \in 1..Len(pool)}

\* how each weekday's hook begins, Monday first
HookOpenings ==
    << "Monday check-in: ", "Day ", "Midweek pulse: ", "Thursday pace: ",
       "Friday recap: ", "Weekend update: ", "Sunday reset: " >>

\* days from Monday 2024-01-01 to d, modulo 7: 0 on Mondays
DayOfWeek(d) == DaysBetween(d, Date(2024, 1, 1)) % 7

\* C17: the hook is the entry of today's weekday (Monday = 0), the insight is
\* insights[days_passed mod 7], the prompt is prompts[days_remaining mod 7],
\* the last line is "#YearProgress #<year> <tag>" with tag =
\* extra_tags[days_passed mod 4]; every index is inside its pool.
C17_SelectionInBounds ==
    pc = "length" =>
        LET n == Len(lines)
            wd == DayOfWeek(today)
            opening == HookOpenings[wd + 1]
            i == data.days_passed % 7
            p == data.days_remaining % 7
            t == data.days_passed % 4
        IN  /\ wd \in 0..6 /\ i \in 0..6 /\ p \in 0..6 /\ t \in 0..3
            /\ Len(hooks(data)) = 7 /\ Len(insights) = 7
            /\ Len(prompts) = 7 /\ Len(extra_tags) = 4
            /\ lines[1] = hooks(data)[wd + 1]
            /\ SubSeq(lines[1], 1, Len(opening)) = opening
            /\ lines[3] = insights[i + 1]
            /\ lines[n - 1] = prompts[p + 1]
            /\ lines[n] = "#YearProgress #" \o ToString(today.year) \o " "
                          \o extra_tags[t + 1]
            /\ Contains(tweet_text, "#YearProgress")
            /\ Contains(tweet_text, "#" \o ToString(today.year))

\* Sunday 2024-12-29, today not counted: 363 days passed, 3 remaining
C17_Witness ==
    /\ pc = "length"
    /\ today = Date(2024, 12, 29)
    /\ ~include_today
    /\ lines[1] = "Sunday reset: 3 days left this year."
    /\ lines[3] = "My take: progress follows attention."
    /\ lines[Len(lines) - 1] = "What would make today count?"
    /\ lines[Len(lines)] = "#YearProgress #2024 #Consistency"

\* the longest entry of a pool
Longest(pool) ==
    CHOOSE n \in {Len(pool[i]) : i \in 1..Len(pool)} :
        \A i \in 1..Len(pool) : Len(pool[i]) <= n

\* a record whose every number is rendered at its full width in a four-digit
\* year: 100.0 percent, three-digit day counts, two-digit weeks
WidestRecord ==
    [calculate_year_progress(Date(2024, 12, 31), TRUE) EXCEPT
        !.year = 9999, !.days_passed = 366, !.days_remaining = 365]

\* an upper bound of the five non-aside lines joined, in any four-digit year
WidestFiveLines ==
    Longest(hooks(WidestRecord)) + 1
    + Len(BaseLines(WidestRecord).summary) + 1
    + Longest(insights) + 1
    + Longest(prompts) + 1
    + Len("#YearProgress #9999 ") + Longest(extra_tags)

\* C18: the text of create_tweet_text has at most 280 characters, the five
\* non-aside lines alone have at most 280 (in any four-digit year), the text
\* posted is the text composed, never the truncated one, and a local pool
\* entry chosen as aside is always kept.
C18_NeverTruncated ==
    /\ WidestFiveLines <= 280
    /\ data.weeks_remaining <= 52 /\ data.percentage_complete <= 1000
    /\ (pc \in {"length", "upload", "tweet", "fallback"}
            \/ (pc = "exited" /\ tweets # <<>>)) =>
        /\ Len(tweet_text) <= 280
        /\ Len(Join(WithoutAside(lines))) <= WidestFiveLines
        /\ tweet_text \in {Join(lines), Join(WithoutAside(lines))}
        /\ tweets # <<>> => tweets[1].text \in {Join(lines), Join(WithoutAside(lines))}
        /\ (extra_line # None /\ extra_line.v \in Range(jokes) \cup Range(fallback_quotes)) =>
            /\ Len(lines) = 6
            /\ tweet_text = Join(lines)

\* a remote snippet of more than 200 characters was accepted and dropped, and
\* the text of the five other lines went to the upload step as composed
C18_Witness ==
    /\ pc = "upload"
    /\ requests = 1
    /\ Len(lines) = 6
    /\ Len(lines[4]) > 200
    /\ tweet_text = Join(WithoutAside(lines))
    /\ Len(tweet_text) <= 280

\* what the getter of the selected kind returned for the answer in fetch
GetterResult ==
    IF show = "joke"
    THEN _get_remote_joke(use_remote_content, fetch, joke_max_length)
    ELSE _get_remote_quote(use_remote_content, fetch, quote_max_length)

\* C20: when the getter returned a snippet and the text with it exceeds 280
\* characters, the text composed and posted is the five other lines, with
\* neither the snippet nor the local pool entry; the local pool entry is the
\* aside only when the getter returned None.
C20_NoLocalSubstitute ==
    /\ (pc = "length" /\ show # "none") =>
        LET r == GetterResult
            accepted == ~r.raised /\ Truthy(r.value)
        IN  /\ accepted =>
                /\ extra_line = r.value
                /\ lines[4] = r.value.v
                /\ Len(r.value.v) <= (IF show = "joke" THEN joke_max_length
                                      ELSE quote_max_length)
            /\ (accepted /\ Len(Join(lines)) > 280) =>
                /\ tweet_text = Join(WithoutAside(lines))
                /\ ~Contains(tweet_text, r.value.v)
                /\ ~Contains(tweet_text, LocalAside)
            /\ extra_line = JStr(LocalAside) =>
                /\ r.value = None
                /\ Contains(tweet_text, "\n" \o LocalAside \o "\n")
    /\ (tweets # <<>> /\ Len(lines) = 6 /\ Len(Join(lines)) > 280) =>
        /\ tweets[1].text = Join(WithoutAside(lines))
        /\ ~Contains(tweets[1].text, lines[4])
        /\ ~Contains(tweets[1].text, LocalAside)

\* a joke day on which a joke within the maximum length was served, too long
\* for the post: the text composed has the five other lines only
C20_Witness ==
    /\ pc = "length"
    /\ show = "joke"
    /\ requests = 1
    /\ fetch.status = "parsed"
    /\ fetch.payload.t = "obj"
    /\ extra_line = fetch.payload.joke
    /\ Len(extra_line.v) <= joke_max_length
    /\ Len(Join(lines)) > 280
    /\ tweet_text = Join(WithoutAside(lines))

-----------------------------------------------------------------------------
(* Properties of the length steps, checked over DegradeSpec *)

\* C14: a composed text over 280 characters with an aside is re-rendered from
\* the five other lines; only a text still over 280 is then cut to its first
\* 277 characters plus "...", 280 characters in all; a text of at most 280
\* characters passes both steps unaltered.
C14_DegradationOrder ==
    [][/\ pc = "text" =>
            tweet_text' = IF Len(lines) = 6 /\ Len(Join(lines)) > 280
                          THEN Join(WithoutAside(lines))
                          ELSE Join(lines)
       /\ pc = "length" =>
            /\ Len(tweet_text) <= 280 => tweet_text' = tweet_text
            /\ Len(tweet_text) > 280 =>
                /\ tweet_text' = SubSeq(tweet_text, 1, 277) \o "..."
                /\ Len(tweet_text') = 280
                /\ tweet_text = Join(WithoutAside(lines))]_vars

\* the aside was dropped and the five other lines were still too long: the
\* text sent on is 280 characters ending with the marker
C14_Witness ==
    /\ pc = "upload"
    /\ Len(lines) = 6
    /\ Len(Join(WithoutAside(lines))) > 280
    /\ Len(tweet_text) = 280
    /\ SubSeq(tweet_text, 278, 280) = "..."
    /\ SubSeq(tweet_text, 1, 277) = SubSeq(Join(WithoutAside(lines)), 1, 277)
====
